---------------------------- MODULE Spec2Model ----------------------------
(***************************************************************************)
(* A model of the Nix store garbage collector, src/libstore/gc.cc:         *)
(* the liveness engine (tryToDelete), the collection cycle                 *)
(* (collectGarbage) and the locking protocol between a collector and the   *)
(* processes that register roots (addTempRoot, addPermRoot).               *)
(*                                                                         *)
(* Store paths are the numbers 1..NPaths; their numeric order is the       *)
(* lexicographic order of the path names, which is the order in which the  *)
(* code's PathSet (a std::set<string>) is iterated.  A directory that      *)
(* tryToDelete renamed to <p>-gc-<pid> is the store entry Gc(p).           *)
(***************************************************************************)
EXTENDS Naturals, Integers, FiniteSets, Sequences, TLC

\* ------------------------------------------------------------------ bounds

MaxSize == 2
MaxFreedCap == 2

Paths == {1, 2, 3}
NPaths == Cardinality(Paths)
\* <storeDir>/.links
LinksDir == 0
\* <p>-gc-<pid>, <p>.lock and <p>.chroot
Gc(p) == p + NPaths
LockOf(p) == p + 2 * NPaths
ChrootOf(p) == p + 3 * NPaths
GcNames == {Gc(p) : p \in Paths}
LockNames == {LockOf(p) : p \in Paths}
ChrootNames == {ChrootOf(p) : p \in Paths}
Base(e) == ((e - 1) % NPaths) + 1

\* A recursion of tryToDelete deeper than this has entered some path twice
\* with nothing changed in between, and so never returns.
MaxDepth == (4 * NPaths + 1) * NPaths

\* options.maxFreed is an unsigned long long whose default is ULLONG_MAX:
\* Unlimited is a budget no run of the model can reach.
Unlimited == 2 * NPaths * MaxSize + 1


\* ------------------------------------------------------------------ state

VARIABLES
    refs,         \* metadata store: refs[p] = references(p)
    drvOutputs,   \* drvOutputs[p] = declared outputs of derivation p ({} when p is no derivation)
    isDrv,        \* the paths whose name ends in .drv
    isDir,        \* isDir[p]: the store entry p is a directory (S_ISDIR)
    narSize,      \* narSize[p]: the size of p, on disk and in the metadata store
    settings,     \* [gcKeepOutputs, gcKeepDerivations]
    options,      \* GCOptions: [action, maxFreed, ignoreLiveness, pathsToDelete]
    valid,        \* the valid paths (rows of the metadata store)
    disk,         \* the entries of the store directory
    links,        \* the symlinks: links[l] is the target of link l, or Absent
    tempDir,      \* <stateDir>/temproots: tempDir[n] is the file named n (a slot), 0 when there is none
    files,        \* files[n][k]: the temp-roots file (inode) in slot k of name n
    mpc,          \* mpc[p]: where process p is in addTempRoot / addPermRoot
    marg,         \* marg[p]: the arguments of the call process p is in
    fdTemp,       \* fdTemp[p]: the slot fdTempRoots of process p is open on, 0 for -1
    gcReaders,    \* the processes holding the global GC lock for reading
    retTemp,      \* history: retTemp[p] = the paths whose addTempRoot call returned in process p
    retPerm,      \* history: the addPermRoot calls that returned before the collector took the GC lock
    state,        \* GCState and GCResults of the running cycle
    pc,           \* the collector's position in collectGarbage
    entries,      \* the valid entries read from the store directory, not yet tried
    unread,       \* the entries of the store directory readdir has not returned yet
    scanTodo,     \* readTempRoots: the names of tempRootFiles not looked at yet
    scanCur,      \* readTempRoots: the file the collector waits for a read lock on
    gcFds,        \* the temp-roots files the collector keeps open, read-locked (fds)
    valid0,       \* history: the valid paths when the GC lock was acquired
    hist          \* history of the cycle, for the properties

shape == <<refs, drvOutputs, isDrv, isDir, narSize, settings, options>>
procVars == <<mpc, marg, fdTemp, gcReaders, retTemp, retPerm>>

vars == <<refs, drvOutputs, isDrv, isDir, narSize, settings, options, valid, disk,
          links, tempDir, files, mpc, marg, fdTemp, gcReaders, retTemp, retPerm,
          state, pc, entries, unread, scanTodo, scanCur, gcFds, valid0, hist>>

\* ------------------------------------------------------- helpers on sets

Min(S) == CHOOSE x \in S : \A y \in S : x <= y


\* ------------------------------------------- the metadata store's queries

isValidPath(w, p) == p \in w.valid

\* The rows of the Refs table whose referrer is valid.
queryReferrers(w, p) == {q \in w.valid : p \in refs[q]}

queryReferences(w, p) == IF p \in w.valid THEN refs[p] ELSE {}

isDerivation(p) == p \in isDrv

queryDerivationOutputs(p) == drvOutputs[p]

queryValidDerivers(w, p) == {d \in w.valid : isDerivation(d) /\ p \in drvOutputs[d]}

\* invalidatePathChecked: refuses (PathInUse) when a valid path other than p
\* itself still refers to p.
PathInUse(w, p) == queryReferrers(w, p) \ {p} # {}

\* topoSortPaths: depth-first over the references inside `paths`, each path
\* pushed to the front once its references are done: referrers come first.
RECURSIVE dfsVisit(_, _, _, _)
dfsVisit(w, paths, path, acc) ==
    IF path \in acc.visited THEN acc
    ELSE LET RECURSIVE Each(_, _)
             Each(todo, a) ==
                 IF todo = {} THEN a
                 ELSE LET i == Min(todo)
                      IN Each(todo \ {i},
                              IF i # path /\ i \in paths
                              THEN dfsVisit(w, paths, i, a) ELSE a)
             done == Each(queryReferences(w, path),
                          [acc EXCEPT !.visited = @ \cup {path}])
         IN [done EXCEPT !.sorted = <<path>> \o @]

RECURSIVE topoFrom(_, _, _, _)
topoFrom(w, paths, todo, acc) ==
    IF todo = {} THEN acc.sorted
    ELSE LET i == Min(todo)
         IN topoFrom(w, paths, todo \ {i}, dfsVisit(w, paths, i, acc))

topoSortPaths(w, paths) == topoFrom(w, paths, paths, [visited |-> {}, sorted |-> <<>>])


\* ------------------------------------------------------------ tryToDelete

\* The record w threaded through tryToDelete: the GCState and GCResults
\* fields, the metadata store (valid) and the store directory (disk), and
\* exc, the exception in flight ("none" when there is none).

shouldDelete(action) == action \in {"gcDeleteDead", "gcDeleteSpecific"}

hasSuffix(path, suffix) ==
    \/ suffix = ".lock" /\ path \in LockNames
    \/ suffix = ".chroot" /\ path \in ChrootNames

\* A test that takes no lock file or chroot directory for an active one.
isActiveTempFile_Never(w, path, suffix) == FALSE

\* Lines 417-422.
isActiveTempFile(w, path, suffix) ==
    hasSuffix(path, suffix) /\ Base(path) \in w.tempRoots

\* st_blocks * 512 summed over the tree of a store entry.
diskBytes(e) == narSize[Base(e)]

\* A deletion that leaves alone a <p>-gc-<pid> entry this cycle did not make.
deleteGarbage_OwnRenamesOnly(w, path) ==
    IF path \in w.disk /\ (path \notin GcNames \/ path \in w.invalidated)
    THEN [w EXCEPT !.disk = @ \ {path}, !.bytesFreed = @ + diskBytes(path)]
    ELSE w

\* deletePathWrapped through deleteGarbage: a missing entry frees nothing.
deleteGarbage(w, path) ==
    IF path \in w.disk
    THEN [w EXCEPT !.disk = @ \ {path}, !.bytesFreed = @ + diskBytes(path)]
    ELSE w

\* Lines 461-485: the derivers and outputs coupled to `path` by the policies.
RECURSIVE closeUnderPolicy(_, _, _)
\* A closure that leaves out the outputs of a derivation.
closeUnderPolicy_NoOutputs(w, todo, paths) ==
    IF todo = {} THEN paths
    ELSE LET p == Min(todo)
             rest == todo \ {p}
         IN IF p \in paths THEN closeUnderPolicy(w, rest, paths)
            ELSE LET ders == IF w.gcKeepOutputs THEN queryValidDerivers(w, p) ELSE {}
                 IN closeUnderPolicy(w, rest \cup ders, paths \cup {p})

closeUnderPolicy(w, todo, paths) ==
    IF todo = {} THEN paths
    ELSE LET p == Min(todo)
             rest == todo \ {p}
         IN IF p \in paths THEN closeUnderPolicy(w, rest, paths)
            ELSE LET outs == IF w.gcKeepDerivations /\ isDerivation(p)
                             THEN {o \in queryDerivationOutputs(p) : isValidPath(w, o)}
                             ELSE {}
                     ders == IF w.gcKeepOutputs THEN queryValidDerivers(w, p) ELSE {}
                 IN closeUnderPolicy(w, rest \cup outs \cup ders, paths \cup {p})

\* A root test that looks at one member of the unit only.
anyIsRoot_FirstOnly(w, paths) == Min(paths) \in w.roots

\* Lines 501-505.
anyIsRoot(w, paths) == \E i \in paths : i \in w.roots

\* A budget test that leaves out the invalidated bytes.
limitReached_FreedOnly(w) == w.bytesFreed > options.maxFreed

\* Line 551.
limitReached(w) == w.bytesFreed + w.bytesInvalidated > options.maxFreed

\* Lines 566-572.
isLive(w, paths) ==
    [w |-> [w EXCEPT !.live = @ \cup paths,
                     !.paths = IF options.action = "gcReturnLive"
                               THEN @ \cup paths ELSE @],
     ret |-> FALSE]

\* An invalidation that leaves the directory under its name and schedules
\* that name for deletion.
invalidateAndRename_NoRename(w, i) ==
    LET w1 == [w EXCEPT !.bytesInvalidated = @ + narSize[i]]
    IN IF PathInUse(w1, i) THEN [w1 EXCEPT !.exc = "PathInUse"]
       ELSE [w1 EXCEPT !.valid = @ \ {i},
                       !.invalidated = @ \cup {i}]

\* A rename that is followed at once by the deletion of the renamed directory.
invalidateAndRename_DeleteNow(w, i) ==
    LET w1 == [w EXCEPT !.bytesInvalidated = @ + narSize[i]]
    IN IF PathInUse(w1, i) THEN [w1 EXCEPT !.exc = "PathInUse"]
       ELSE [w1 EXCEPT !.valid = @ \ {i},
                       !.disk = @ \ {i},
                       !.bytesFreed = @ + diskBytes(i),
                       !.invalidated = @ \cup {Gc(i)}]

\* Lines 530-543: a valid path, when the entry tryToDelete was called on is a
\* directory: account, invalidate, rename, schedule.
invalidateAndRename(w, i) ==
    LET w1 == [w EXCEPT !.bytesInvalidated = @ + narSize[i]]
    IN IF PathInUse(w1, i) THEN [w1 EXCEPT !.exc = "PathInUse"]
       ELSE [w1 EXCEPT !.valid = @ \ {i},
                       !.disk = (@ \ {i}) \cup {Gc(i)},
                       !.invalidated = @ \cup {Gc(i)}]

\* Lines 544-547.
invalidateAndDelete(w, i) ==
    IF PathInUse(w, i) THEN [w EXCEPT !.exc = "PathInUse"]
    ELSE deleteGarbage([w EXCEPT !.valid = @ \ {i}], i)

\* Lines 522-561: one iteration of the loop over pathsSorted; stIsDir is
\* S_ISDIR(st.st_mode), st being the lstat of tryToDelete's argument.
deleteOne(w, i, stIsDir) ==
    LET w1 == IF ~shouldDelete(options.action) THEN w
              ELSE IF isValidPath(w, i)
                   THEN IF stIsDir THEN invalidateAndRename(w, i)
                        ELSE invalidateAndDelete(w, i)
                   ELSE deleteGarbage(w, i)
    IN IF w1.exc # "none" THEN w1
       ELSE IF shouldDelete(options.action) /\ limitReached(w1)
            THEN [w1 EXCEPT !.exc = "GCLimitReached"]
            ELSE [w1 EXCEPT !.deleted = @ \cup {i},
                            !.paths = IF options.action # "gcReturnLive"
                                      THEN @ \cup {i} ELSE @]

RECURSIVE deleteSorted(_, _, _)
deleteSorted(w, pathsSorted, stIsDir) ==
    IF pathsSorted = <<>> \/ w.exc # "none" THEN w
    ELSE deleteSorted(deleteOne(w, Head(pathsSorted), stIsDir), Tail(pathsSorted), stIsDir)

RECURSIVE tryToDelete(_, _, _)
RECURSIVE tryReferrers(_, _, _, _)

\* A call that deletes its paths without looking at their referrers.
tryReferrers_Skip(w, todo, paths, depth) == [w |-> w, ret |-> TRUE]

\* Lines 513-517: the referrers in PathSet order, until one is live.
tryReferrers(w, todo, paths, depth) ==
    IF todo = {} THEN [w |-> w, ret |-> TRUE]
    ELSE LET i == Min(todo)
         IN IF i \in paths THEN tryReferrers(w, todo \ {i}, paths, depth)
            ELSE LET r == tryToDelete(w, i, depth + 1)
                 IN IF r.w.exc # "none" \/ ~r.ret THEN r
                    ELSE tryReferrers(r.w, todo \ {i}, paths, depth)

tryToDelete(w, path, depth) ==
    IF depth > MaxDepth THEN [w |-> [w EXCEPT !.exc = "StackOverflow"], ret |-> FALSE]
    ELSE IF path = LinksDir THEN [w |-> w, ret |-> TRUE]
    ELSE IF path \notin w.disk THEN [w |-> w, ret |-> TRUE]
    ELSE IF path \in w.deleted THEN [w |-> w, ret |-> TRUE]
    ELSE IF path \in w.live THEN [w |-> w, ret |-> FALSE]
    ELSE IF /\ ~isValidPath(w, path)
            /\ \/ isActiveTempFile(w, path, ".lock")
               \/ isActiveTempFile(w, path, ".chroot")
         THEN [w |-> w, ret |-> FALSE]
    ELSE LET paths == IF isValidPath(w, path)
                      THEN closeUnderPolicy(w, {path}, {})
                      ELSE {path}
         IN IF anyIsRoot(w, paths) THEN isLive(w, paths)
            ELSE LET referrers == UNION {queryReferrers(w, i) :
                                         i \in {p \in paths : isValidPath(w, p)}}
                     r == tryReferrers(w, referrers, paths, depth)
                 IN IF r.w.exc # "none" THEN r
                    ELSE IF ~r.ret THEN isLive(r.w, paths)
                    ELSE [w |-> deleteSorted(r.w, topoSortPaths(r.w, paths),
                                             isDir[Base(path)]),
                          ret |-> TRUE]


\* ------------------------------------------------------ persistent roots

\* The symlinks of the model: "root" is <stateDir>/gcroots/<name>, "auto" is
\* <stateDir>/gcroots/auto/<hash of ext>, and "ext" is a path outside the
\* store and outside the roots directory.  A link's target is a store path,
\* the path "ext" (OutsideE), a path outside the store where nothing is
\* (Nowhere), or the link does not exist (Absent).
Absent == -1
OutsideE == -2
Nowhere == -3
LinkNames == {"root", "auto", "ext"}
InRootsDir == {"root", "auto"}

isInStore(t) == t \in Paths

\* Line 326: pathExists(target), an lstat: a symlink is there even when its
\* own target is not.
pathExists(lk, t) == t = OutsideE /\ lk["ext"] # Absent

\* Lines 294-347: findRoots at the symlink l; acc is [roots, links].
RECURSIVE findRootsAt(_, _, _, _, _)
\* A scan that unlinks a stale link wherever it finds it.
findRootsAt_StaleAnywhere(v, l, recurseSymlinks, deleteStale, acc) ==
    LET target == acc.links[l]
    IN IF target = Absent THEN acc
       ELSE IF isInStore(target)
            THEN IF target \in v
                 THEN [acc EXCEPT !.roots = @ \cup {<<l, target>>}]
                 ELSE acc
       ELSE IF pathExists(acc.links, target)
            THEN IF recurseSymlinks
                 THEN findRootsAt(v, "ext", FALSE, deleteStale, acc)
                 ELSE acc
       ELSE IF deleteStale THEN [acc EXCEPT !.links[l] = Absent]
       ELSE acc

findRootsAt(v, l, recurseSymlinks, deleteStale, acc) ==
    LET target == acc.links[l]
    IN IF target = Absent THEN acc
       ELSE IF isInStore(target)
            THEN IF target \in v
                 THEN [acc EXCEPT !.roots = @ \cup {<<l, target>>}]
                 ELSE acc
       ELSE IF recurseSymlinks
            THEN IF pathExists(acc.links, target)
                 THEN findRootsAt(v, "ext", FALSE, deleteStale, acc)
                 ELSE IF deleteStale THEN [acc EXCEPT !.links[l] = Absent]
                 ELSE acc
       ELSE acc

\* A walk that does not enter gcroots/auto.
findRoots_RootOnly(v, lk, deleteStale) ==
    findRootsAt(v, "root", TRUE, deleteStale, [roots |-> {}, links |-> lk])

\* Lines 350-356: the walk of <stateDir>/gcroots.
findRoots(v, lk, deleteStale) ==
    findRootsAt(v, "auto", TRUE, deleteStale,
                findRootsAt(v, "root", TRUE, deleteStale, [roots |-> {}, links |-> lk]))

\* ---------------------------------------------------- temp-roots files

\* The process ids of the model: a name in temproots is a process id.
Procs == {1, 2}
\* A name has at most three files at a time: the one linked in the directory
\* and unlinked ones still open in the owner and in the collector.
Slots == {1, 2, 3}

BlankFile == [content |-> {}, d |-> FALSE, olock |-> "none"]

\* st_size: the paths written and the collector's 'd'.
fileSize(f) == Cardinality(f.content) + (IF f.d THEN 1 ELSE 0)

\* An inode lives while it is linked or open.
InUse(td, fdt, fds, cur, n, k) ==
    td[n] = k \/ fdt[n] = k \/ <<n, k>> \in fds \/ cur = <<n, k>>

Norm(f, td, fdt, fds, cur) ==
    [n \in Procs |-> [k \in Slots |->
        IF InUse(td, fdt, fds, cur, n, k) THEN f[n][k] ELSE BlankFile]]

FreeSlot(n) == Min({k \in Slots : ~InUse(tempDir, fdTemp, gcFds, scanCur, n, k)})

\* The collector holds the global GC lock for writing.
GCWrite == pc \in {"findRoots", "readTempRoots", "scanning", "specific",
                   "readdir", "shuffled", "unlock"}

\* The collector holds a read lock on the file.
GCReads(n, k) == <<n, k>> \in gcFds

NoArg == [path |-> 0, kind |-> "none"]

\* Line 261: lockFile(fd, ltWrite, false) succeeds when nobody else holds a
\* lock on the file.
canReap(f) == f.olock = "none"

\* A reaping that leaves the file linked.
unlinkTemp_Keep(td, n) == td

\* Line 264: unlink(path).
unlinkTemp(td, n) == [td EXCEPT ![n] = 0]

\* A scan that closes the file once it is read.
keepOpen_Close(fds, fd) == fds

\* Line 289: fds.push_back(fd), the descriptor and its read lock are kept.
keepOpen(fds, fd) == fds \cup {fd}

\* A collector that leaves the temporary roots out of the roots.
insertTempRoots_None(roots, tempRoots) == roots

\* Line 665: state.roots.insert(state.tempRoots.begin(), state.tempRoots.end()).
insertTempRoots(roots, tempRoots) == roots \cup tempRoots

\* A writer that never looks at the size of its file.
retryNeeded_Never(f) == FALSE

\* Line 188: the file is no longer empty.
retryNeeded(f) == fileSize(f) # 0

\* --------------------------------------------------------- collectGarbage

\* The record tryToDelete works on, from the variables.
World == [state EXCEPT !.valid = valid, !.disk = disk]

\* A store the program can be in: every valid path is in the store directory.
Acyclic(r) ==
    LET RECURSIVE reach(_, _)
        reach(S, n) == IF n = 0 THEN S
                       ELSE reach(S \cup UNION {r[x] \ {x} : x \in S}, n - 1)
    IN \A p \in Paths : p \notin reach(r[p] \ {p}, NPaths)

RefShapes ==
    {r \in [Paths -> SUBSET Paths] :
        /\ Acyclic(r)
        /\ \A p \in Paths : p \in r[p] => p = 1}

PlainRefShapes == {r \in RefShapes : \A p \in Paths : p \notin r[p]}

\* A derivation is a file whose outputs are not derivations.
DrvShapes ==
    {d \in [Paths -> SUBSET Paths] :
        LET D == {p \in Paths : d[p] # {}}
        IN \A p \in D : d[p] \cap D = {}}

UnitSizes == {[p \in Paths |-> 1]}


FewSizeShapes == {[p \in Paths |-> s] : s \in 1..MaxSize}
                 \cup {[p \in Paths |-> IF p = 1 THEN MaxSize ELSE 1]}

\* At most one reference in the whole store.
SparseRefShapes ==
    {r \in PlainRefShapes : \A p, q \in Paths : r[p] # {} /\ r[q] # {} =>
                                                  p = q /\ Cardinality(r[p]) = 1}

\* <<targets of the links under gcroots, content of the temp-roots file>>
PermRootShapes == {<<{}, {}>>} \cup {<<{p}, {}>> : p \in Paths}

RootShapes == PermRootShapes \cup {<<{}, {p}>> : p \in Paths}

AllSettings == [gcKeepOutputs : BOOLEAN, gcKeepDerivations : BOOLEAN]

GCState0 ==
    [roots |-> {}, tempRoots |-> {}, deleted |-> {}, live |-> {},
     invalidated |-> {}, gcKeepOutputs |-> FALSE, gcKeepDerivations |-> FALSE,
     bytesInvalidated |-> 0, bytesFreed |-> 0, paths |-> {},
     exc |-> "none", valid |-> {}, disk |-> {}]

NoFd == <<0, 0>>

Hist0 == [linksAtScan |-> [l \in LinkNames |-> Absent],
          reaped |-> {}, reapedPaths |-> {}, calls |-> 0, queried |-> {},
          cycle |-> 1, leftovers |-> {}]

\* A store, a configuration and a call of collectGarbage drawn from the
\* given sets; the collector has not started.  A root shape is the target
\* of the link gcroots/root and the temporary roots of process 1, which is
\* alive and between two calls; process 2 has exited.  The store directory
\* holds every path, valid or not (a path being built is not valid yet),
\* and the entries of extras; the references of a valid path are valid.
InitWith(refShapes, sizes, roots, dirs, sets, opts, valids, extras) ==
    /\ refs \in refShapes
    /\ drvOutputs \in DrvShapes
    /\ isDrv = {p \in Paths : drvOutputs[p] # {}}
    /\ \E d \in dirs : isDir = [p \in Paths |-> d /\ drvOutputs[p] = {}]
    /\ narSize \in sizes
    /\ valid \in valids
    /\ disk = Paths \cup {LinksDir} \cup extras
    /\ \E rs \in roots :
          /\ links = [l \in LinkNames |->
                         IF l = "root" /\ rs[1] # {} THEN Min(rs[1]) ELSE Absent]
          /\ tempDir = [n \in Procs |-> IF n = 1 /\ rs[2] # {} THEN 1 ELSE 0]
          /\ fdTemp = tempDir
          /\ files = [n \in Procs |-> [k \in Slots |->
                         IF n = 1 /\ k = 1 /\ rs[2] # {}
                         THEN [content |-> rs[2], d |-> FALSE, olock |-> "read"]
                         ELSE BlankFile]]
          /\ retTemp = [n \in Procs |-> IF n = 1 THEN rs[2] ELSE {}]
    /\ mpc = [n \in Procs |-> IF n = 1 THEN "idle" ELSE "dead"]
    /\ marg = [n \in Procs |-> NoArg]
    /\ gcReaders = {}
    /\ retPerm = {}
    /\ settings \in sets
    /\ options \in opts
    /\ state = GCState0
    /\ pc = "start"
    /\ entries = {}
    /\ unread = {}
    /\ scanTodo = {}
    /\ scanCur = NoFd
    /\ gcFds = {}
    /\ valid0 = {}
    /\ hist = Hist0

\* A store whose paths are all valid, with nothing else in its directory.
InitFrom(refShapes, sizes, roots, dirs, sets, opts) ==
    InitWith(refShapes, sizes, roots, dirs, sets, opts, {Paths}, {})

BothOrNone == {x \in AllSettings : x.gcKeepOutputs = x.gcKeepDerivations}

\* nix-store --gc with no budget, over every store shape.
InitDeleteDead ==
    InitFrom(RefShapes, UnitSizes, RootShapes \ {<<{3}, {}>>, <<{}, {2}>>}, {TRUE}, AllSettings,
             [action : {"gcDeleteDead"}, maxFreed : {Unlimited},
              ignoreLiveness : {FALSE}, pathsToDelete : {{}}])

\* nix-store --gc --max-freed, and --delete under a budget.
InitBudget ==
    InitFrom(SparseRefShapes, FewSizeShapes, {<<{}, {}>>, <<{1}, {}>>}, BOOLEAN, BothOrNone,
             [action : {"gcDeleteDead", "gcDeleteSpecific"}, maxFreed : 0..MaxFreedCap,
              ignoreLiveness : {FALSE}, pathsToDelete : {{1, 2}}])

\* nix-store --gc --print-live and --print-dead.
InitReturn ==
    InitFrom(PlainRefShapes, UnitSizes, {<<{}, {}>>, <<{1}, {}>>, <<{2}, {}>>}, {TRUE},
             BothOrNone,
             [action : {"gcReturnLive", "gcReturnDead"}, maxFreed : {Unlimited},
              ignoreLiveness : {FALSE}, pathsToDelete : {{}}])

\* nix-store --delete, with and without --ignore-liveness.
InitSpecific ==
    InitFrom(PlainRefShapes, UnitSizes,
             {<<{}, {}>>, <<{1}, {}>>, <<{3}, {}>>, <<{}, {2}>>}, {TRUE},
             BothOrNone,
             [action : {"gcDeleteSpecific"}, maxFreed : {Unlimited},
              ignoreLiveness : BOOLEAN, pathsToDelete : {{1}, {1, 3}}])

\* What is left of builds: the lock file and the chroot directory of path 2
\* and the lock file of path 3.
BuildLeftovers == {LockOf(2), ChrootOf(2), LockOf(3)}

\* A collection while process 1 builds: its temp-roots file lists path 2 or
\* path 3, and path 2 may not be valid yet; path 3 may be a derivation.
InitBuild ==
    /\ InitWith(SparseRefShapes, UnitSizes, {<<{}, {2}>>, <<{}, {3}>>}, {TRUE}, BothOrNone,
                [action : {"gcDeleteDead", "gcDeleteSpecific"}, maxFreed : {Unlimited},
                 ignoreLiveness : BOOLEAN,
                 pathsToDelete : {{2}, {LockOf(2)}, {1, 3, LockOf(3)}}],
                {Paths, Paths \ {2}}, BuildLeftovers)
    /\ drvOutputs[1] = {} /\ drvOutputs[2] = {}
    /\ \A q \in valid : refs[q] \subseteq valid
    /\ options.action = "gcDeleteDead" => ~options.ignoreLiveness /\ options.pathsToDelete = {2}

Init == InitDeleteDead \/ InitBudget \/ InitReturn \/ InitSpecific \/ InitBuild

\* What the collector leaves alone outside its scans.
scanAlone == <<scanTodo, scanCur>>

\* A cycle that never overrides the configured policies.
forcePoliciesOff_Never(opts) == FALSE

\* Line 636.
forcePoliciesOff(opts) == opts.action = "gcDeleteSpecific" /\ opts.ignoreLiveness

\* Lines 626-644: the policy override, then openGCLock(ltWrite), which waits
\* for the readers of the global GC lock.
AcquireGCLock ==
    /\ pc = "start"
    /\ gcReaders = {}
    /\ LET off == forcePoliciesOff(options)
       IN state' = [GCState0 EXCEPT
                       !.gcKeepOutputs = settings.gcKeepOutputs /\ ~off,
                       !.gcKeepDerivations = settings.gcKeepDerivations /\ ~off]
    /\ valid0' = valid
    /\ pc' = "findRoots"
    /\ UNCHANGED <<shape, valid, disk, entries, unread, links, tempDir, files,
                   procVars, scanAlone, gcFds, hist>>

\* Lines 649-658 with findRoots (294-356).  NIX_ROOT_FINDER is not set, so
\* addAdditionalRoots (365-387) adds nothing.
FindRoots ==
    /\ pc = "findRoots"
    /\ LET r == findRoots(valid, links, TRUE)
       IN IF options.ignoreLiveness
          THEN UNCHANGED <<state, links>>
          ELSE /\ state' = [state EXCEPT !.roots = {x[2] : x \in r.roots}]
               /\ links' = r.links
    /\ hist' = [hist EXCEPT !.linksAtScan = links]
    /\ pc' = "readTempRoots"
    /\ UNCHANGED <<shape, valid, disk, entries, unread, valid0, tempDir, files,
                   procVars, scanAlone, gcFds>>

\* Lines 240-241: readTempRoots lists the temproots directory.
ReadTempRootsBegin ==
    /\ pc = "readTempRoots"
    /\ scanTodo' = {n \in Procs : tempDir[n] # 0}
    /\ pc' = "scanning"
    /\ UNCHANGED <<shape, valid, disk, state, entries, unread, valid0, links,
                   tempDir, files, procVars, scanCur, gcFds, hist>>

\* Lines 243-267: the next file of the listing is opened and its write lock
\* tried without blocking; a file gone since the listing is skipped, a file
\* nobody holds a lock on is unlinked and marked with 'd'.
ScanOpen ==
    /\ pc = "scanning"
    /\ scanCur = NoFd
    /\ \E n \in scanTodo :
          LET k == tempDir[n]
          IN IF k = 0
             THEN /\ scanTodo' = scanTodo \ {n}
                  /\ UNCHANGED <<tempDir, files, scanCur, hist>>
             ELSE IF canReap(files[n][k])
             THEN /\ scanTodo' = scanTodo \ {n}
                  /\ tempDir' = unlinkTemp(tempDir, n)
                  /\ files' = Norm([files EXCEPT ![n][k].d = TRUE],
                                   tempDir', fdTemp, gcFds, NoFd)
                  /\ hist' = [hist EXCEPT !.reaped = @ \cup {n},
                                           !.reapedPaths = @ \cup files[n][k].content]
                  /\ UNCHANGED scanCur
             ELSE /\ scanCur' = <<n, k>>
                  /\ UNCHANGED <<scanTodo, tempDir, files, hist>>
    /\ UNCHANGED <<shape, valid, disk, state, pc, entries, unread, valid0, links,
                   procVars, gcFds>>

\* Lines 273-289: the read lock, granted once the owner holds no write
\* lock; the paths of the file become temporary roots and the descriptor
\* is kept open.
ScanLockRead ==
    /\ pc = "scanning"
    /\ scanCur # NoFd
    /\ files[scanCur[1]][scanCur[2]].olock # "write"
    /\ state' = [state EXCEPT !.tempRoots = @ \cup files[scanCur[1]][scanCur[2]].content]
    /\ gcFds' = keepOpen(gcFds, scanCur)
    /\ scanCur' = NoFd
    /\ scanTodo' = scanTodo \ {scanCur[1]}
    /\ UNCHANGED <<shape, valid, disk, pc, entries, unread, valid0, links,
                   tempDir, files, procVars, hist>>

\* Line 665, and the choice of lines 674-689.
ReadTempRootsDone ==
    /\ pc = "scanning"
    /\ scanCur = NoFd
    /\ scanTodo = {}
    /\ state' = [state EXCEPT !.roots = insertTempRoots(@, state.tempRoots)]
    /\ pc' = IF options.action = "gcDeleteSpecific"
             THEN (IF options.pathsToDelete = {} THEN "unlock" ELSE "specific")
             ELSE IF options.maxFreed > 0 THEN "readdir"
             ELSE "unlock"
    /\ unread' = IF options.action = "gcDeleteSpecific" THEN {} ELSE disk
    /\ entries' = IF options.action = "gcDeleteSpecific" THEN options.pathsToDelete ELSE {}
    /\ UNCHANGED <<shape, valid, disk, valid0, links, tempDir, files, procVars,
                   scanAlone, gcFds, hist>>

\* What a tryToDelete call leaves in the variables.
Commit(w) ==
    /\ state' = [w EXCEPT !.valid = {}, !.disk = {}]
    /\ valid' = w.valid
    /\ disk' = w.disk

\* A collector whose descriptors of the temp-roots files outlive the call.
CloseFds_Leak(next) ==
    /\ gcFds' = gcFds
    /\ files' = Norm(files, tempDir, fdTemp, gcFds', NoFd)

\* collectGarbage's descriptors of the temp-roots files (fds, line 663) are
\* closed when it returns or throws.
CloseFds(next) ==
    /\ gcFds' = IF next \in {"done", "threw"} THEN {} ELSE gcFds
    /\ files' = Norm(files, tempDir, fdTemp, gcFds', NoFd)

\* Lines 676-680: the next path of options.pathsToDelete.
DeleteSpecific ==
    /\ pc = "specific"
    /\ entries # {}
    /\ LET i == Min(entries)
           r == tryToDelete(World, i, 0)
       IN /\ IF r.w.exc = "none" /\ ~r.ret
             THEN Commit([r.w EXCEPT !.exc = "Error"])
             ELSE Commit(r.w)
          /\ entries' = entries \ {i}
          /\ pc' = IF r.w.exc # "none" \/ ~r.ret THEN "threw"
                   ELSE IF entries = {i} THEN "unlock"
                   ELSE "specific"
    /\ CloseFds(pc')
    /\ UNCHANGED <<shape, unread, valid0, links, tempDir, procVars, scanAlone, hist>>

\* Where a tryToDelete call inside the try block (689-727) leaves the
\* collector: GCLimitReached is caught, anything else propagates.
AfterTry(w, next) ==
    IF w.exc = "none" THEN next
    ELSE IF w.exc = "GCLimitReached" THEN "unlock"
    ELSE "threw"

\* Lines 702-711: readdir returns the entries in no particular order; a
\* valid entry is only buffered, an invalid one is tried at once.  Trying an
\* invalid entry changes no other entry's validity, so the order of the
\* valid entries among the others is immaterial and they are buffered
\* together once the invalid ones are done.
ReadEntry ==
    /\ pc = "readdir"
    /\ \E e \in unread \ valid :
          LET r == tryToDelete(World, e, 0)
          IN /\ Commit(r.w)
             /\ unread' = unread \ {e}
             /\ pc' = AfterTry(r.w, "readdir")
    /\ CloseFds(pc')
    /\ UNCHANGED <<shape, entries, valid0, links, tempDir, procVars, scanAlone, hist>>

ReadDone ==
    /\ pc = "readdir"
    /\ unread \ valid = {}
    /\ entries' = unread
    /\ unread' = {}
    /\ pc' = IF unread = {} THEN "unlock" ELSE "shuffled"
    /\ UNCHANGED <<shape, valid, disk, state, valid0, links, tempDir, files,
                   procVars, scanAlone, gcFds, hist>>

\* Lines 720-724: the entries in the order random_shuffle left them in.
TryEntry ==
    /\ pc = "shuffled"
    /\ \E e \in entries :
          LET r == tryToDelete(World, e, 0)
          IN /\ Commit(r.w)
             /\ entries' = entries \ {e}
             /\ pc' = AfterTry(r.w, IF entries = {e} THEN "unlock" ELSE "shuffled")
    /\ CloseFds(pc')
    /\ UNCHANGED <<shape, unread, valid0, links, tempDir, procVars, scanAlone, hist>>

\* Line 731.
ReleaseGCLock ==
    /\ pc = "unlock"
    /\ pc' = "deleteInvalidated"
    /\ UNCHANGED <<shape, valid, disk, state, entries, unread, valid0, links,
                   tempDir, files, procVars, scanAlone, gcFds, hist>>

\* Lines 735-736: the renamed directories, in PathSet order.
DeleteInvalidated ==
    /\ pc = "deleteInvalidated"
    /\ LET left == state.invalidated \cap disk
       IN IF left = {}
          THEN /\ pc' = "links"
               /\ UNCHANGED <<state, disk>>
          ELSE LET w == deleteGarbage(World, Min(left))
               IN /\ state' = [w EXCEPT !.valid = {}, !.disk = {}]
                  /\ disk' = w.disk
                  /\ UNCHANGED pc
    /\ UNCHANGED <<shape, valid, entries, unread, valid0, links, tempDir, files,
                   procVars, scanAlone, gcFds, hist>>

\* Lines 739-745: removeUnusedLinks and vacuumDB, then the return; neither
\* changes a store path or a root.
Finish ==
    /\ pc = "links"
    /\ pc' = "done"
    /\ CloseFds(pc')
    /\ UNCHANGED <<shape, valid, disk, state, entries, unread, valid0, links,
                   tempDir, procVars, scanAlone, hist>>

Next ==
    \/ AcquireGCLock
    \/ FindRoots
    \/ ReadTempRootsBegin
    \/ ScanOpen
    \/ ScanLockRead
    \/ ReadTempRootsDone
    \/ DeleteSpecific
    \/ ReadEntry
    \/ ReadDone
    \/ TryEntry
    \/ ReleaseGCLock
    \/ DeleteInvalidated
    \/ Finish

Spec == Init /\ [][Next]_vars


\* ------------------------------------------------- the other processes

MaxCalls == 3

Alive(p) == mpc[p] # "dead"

\* The processes are followed until the collector's cycle has ended.
Running == pc \notin {"done", "threw"}

collectorVars == <<valid, disk, state, pc, entries, unread, scanTodo, scanCur,
                   gcFds, valid0>>

\* Lines 157-160: addTempRoot(path) is called; the first call of a process
\* has to create its file.
ATR_Begin(p, path) ==
    /\ Running
    /\ mpc[p] = "idle"
    /\ hist.calls < MaxCalls
    /\ hist' = [hist EXCEPT !.calls = @ + 1]
    /\ marg' = [marg EXCEPT ![p] = [path |-> path, kind |-> "temp"]]
    /\ mpc' = [mpc EXCEPT ![p] = IF fdTemp[p] = 0 THEN "atr_gclock" ELSE "atr_upgrade"]
    /\ UNCHANGED <<shape, collectorVars, links, tempDir, files, fdTemp,
                   gcReaders, retTemp, retPerm>>

\* Line 169: openGCLock(ltRead) waits while a collector holds the GC lock.
ATR_GCLock(p) ==
    /\ Running
    /\ mpc[p] = "atr_gclock"
    /\ ~GCWrite
    /\ gcReaders' = gcReaders \cup {p}
    /\ mpc' = [mpc EXCEPT ![p] = "atr_create"]
    /\ UNCHANGED <<shape, collectorVars, links, tempDir, files, fdTemp, marg,
                   retTemp, retPerm, hist>>

\* Lines 171-178: a file left under the name of this process is unlinked, the
\* new file is created and opened (closing the descriptor of a file found
\* reaped), and the GC lock is released.
ATR_Create(p) ==
    /\ Running
    /\ mpc[p] = "atr_create"
    /\ LET k == FreeSlot(p)
       IN /\ tempDir' = [tempDir EXCEPT ![p] = k]
          /\ fdTemp' = [fdTemp EXCEPT ![p] = k]
          /\ files' = Norm(files, tempDir', fdTemp', gcFds, scanCur)
    /\ gcReaders' = gcReaders \ {p}
    /\ mpc' = [mpc EXCEPT ![p] = "atr_lockread"]
    /\ UNCHANGED <<shape, collectorVars, links, marg, retTemp, retPerm, hist>>

\* Lines 181-192: the read lock on the new file, then fstat: a file that is
\* no longer empty was reaped by a collector and the loop starts again.
ATR_LockRead(p) ==
    /\ Running
    /\ mpc[p] = "atr_lockread"
    /\ files' = [files EXCEPT ![p][fdTemp[p]].olock = "read"]
    /\ mpc' = [mpc EXCEPT ![p] = IF retryNeeded(files[p][fdTemp[p]])
                                 THEN "atr_gclock" ELSE "atr_upgrade"]
    /\ UNCHANGED <<shape, collectorVars, links, tempDir, fdTemp, marg, gcReaders,
                   retTemp, retPerm, hist>>

\* Line 200: the upgrade to a write lock waits while the collector holds its
\* read lock on the file.
ATR_Upgrade(p) ==
    /\ Running
    /\ mpc[p] = "atr_upgrade"
    /\ ~GCReads(p, fdTemp[p])
    /\ files' = [files EXCEPT ![p][fdTemp[p]].olock = "write"]
    /\ mpc' = [mpc EXCEPT ![p] = "atr_write"]
    /\ UNCHANGED <<shape, collectorVars, links, tempDir, fdTemp, marg, gcReaders,
                   retTemp, retPerm, hist>>

\* Lines 202-208: the path is appended, the lock downgraded, and the call
\* returns.
ATR_Return(p) ==
    /\ Running
    /\ mpc[p] = "atr_write"
    /\ files' = [files EXCEPT ![p][fdTemp[p]] =
                     [@ EXCEPT !.content = @ \cup {marg[p].path}, !.olock = "read"]]
    /\ retTemp' = [retTemp EXCEPT ![p] = @ \cup {marg[p].path}]
    /\ mpc' = [mpc EXCEPT ![p] = "idle"]
    /\ marg' = [marg EXCEPT ![p] = NoArg]
    /\ UNCHANGED <<shape, collectorVars, links, tempDir, fdTemp, gcReaders,
                   retPerm, hist>>

\* createSymlink (59-75): the link is made under a temporary name and
\* renamed over the old one.
createSymlink(lk, link, target) == [lk EXCEPT ![link] = target]

\* The link an addPermRoot call of the kind makes: "direct" has gcRoot =
\* gcroots/root; "indirect" and "outside" (allowOutsideRootsDir) have gcRoot = ext.
GcRootOf(kind) == IF kind = "direct" THEN "root" ELSE "ext"

\* Lines 96-125: the checks and createSymlink(gcRoot, storePath).  The
\* check of line 108 passes: ext is a link into the store or does not exist.
APR_Begin(p, storePath, kind) ==
    /\ Running
    /\ mpc[p] = "idle"
    /\ hist.calls < MaxCalls
    /\ hist' = [hist EXCEPT !.calls = @ + 1]
    /\ marg' = [marg EXCEPT ![p] = [path |-> storePath, kind |-> kind]]
    /\ links' = createSymlink(links, GcRootOf(kind), storePath)
    /\ mpc' = [mpc EXCEPT ![p] = IF kind = "indirect" THEN "apr_indirect" ELSE "apr_sync"]
    /\ UNCHANGED <<shape, collectorVars, tempDir, files, fdTemp, gcReaders,
                   retTemp, retPerm>>

\* Line 111, addIndirectRoot (84-90): gcroots/auto/<hash> -> gcRoot.
APR_Indirect(p) ==
    /\ Running
    /\ mpc[p] = "apr_indirect"
    /\ links' = createSymlink(links, "auto", OutsideE)
    /\ mpc' = [mpc EXCEPT ![p] = "apr_sync"]
    /\ UNCHANGED <<shape, collectorVars, tempDir, files, fdTemp, marg, gcReaders,
                   retTemp, retPerm, hist>>

\* Lines 146-148 with syncWithGC (78-81): the GC lock is taken for reading and
\* released at once, and addPermRoot returns.  (checkRootReachability,
\* 133-141, only prints a warning.)
APR_Sync(p) ==
    /\ Running
    /\ mpc[p] = "apr_sync"
    /\ ~GCWrite
    /\ retPerm' = IF pc = "start"
                  THEN retPerm \cup {[storePath |-> marg[p].path, kind |-> marg[p].kind]}
                  ELSE retPerm
    /\ mpc' = [mpc EXCEPT ![p] = "idle"]
    /\ marg' = [marg EXCEPT ![p] = NoArg]
    /\ UNCHANGED <<shape, collectorVars, links, tempDir, files, fdTemp, gcReaders,
                   retTemp, hist>>

\* The process ends: every descriptor is closed, and with it every lock.
closeAll(p) ==
    /\ fdTemp' = [fdTemp EXCEPT ![p] = 0]
    /\ gcReaders' = gcReaders \ {p}
    /\ retTemp' = [retTemp EXCEPT ![p] = {}]
    /\ mpc' = [mpc EXCEPT ![p] = "dead"]
    /\ marg' = [marg EXCEPT ![p] = NoArg]

\* Lines 211-229: a process that exits runs removeTempRoots.
Exit(p) ==
    /\ Running
    /\ mpc[p] = "idle"
    /\ closeAll(p)
    /\ tempDir' = [tempDir EXCEPT ![p] = IF fdTemp[p] # 0 THEN 0 ELSE @]
    /\ files' = Norm([files EXCEPT ![p] = [k \in Slots |-> [@[k] EXCEPT !.olock = "none"]]],
                     tempDir', fdTemp', gcFds, scanCur)
    /\ UNCHANGED <<shape, collectorVars, links, retPerm, hist>>

\* A process that is killed leaves its file behind.
Crash(p) ==
    /\ Running
    /\ Alive(p)
    /\ mpc[p] # "idle" \/ fdTemp[p] # 0
    /\ closeAll(p)
    /\ files' = Norm([files EXCEPT ![p] = [k \in Slots |-> [@[k] EXCEPT !.olock = "none"]]],
                     tempDir, fdTemp', gcFds, scanCur)
    /\ UNCHANGED <<shape, collectorVars, links, tempDir, retPerm, hist>>

\* A new process gets the process id of a dead one.
Spawn(p) ==
    /\ Running
    /\ mpc[p] = "dead"
    /\ mpc' = [mpc EXCEPT ![p] = "idle"]
    /\ UNCHANGED <<shape, collectorVars, links, tempDir, files, fdTemp, marg,
                   gcReaders, retTemp, retPerm, hist>>

\* The paths the other processes register in the model.
TempArgs == {2}
PermArgs == {<<1, "direct">>, <<3, "direct">>, <<1, "indirect">>, <<1, "outside">>}

\* The processes register temporary roots, exit, are killed and replaced.
TempMutate ==
    \/ \E p \in Procs, path \in TempArgs : ATR_Begin(p, path)
    \/ \E p \in Procs : ATR_GCLock(p)
    \/ \E p \in Procs : ATR_Create(p)
    \/ \E p \in Procs : ATR_LockRead(p)
    \/ \E p \in Procs : ATR_Upgrade(p)
    \/ \E p \in Procs : ATR_Return(p)
    \/ \E p \in Procs : Exit(p)
    \/ \E p \in Procs : Crash(p)
    \/ \E p \in Procs : Spawn(p)

\* The processes register persistent roots.
PermMutate ==
    \/ \E p \in Procs, a \in PermArgs : APR_Begin(p, a[1], a[2])
    \/ \E p \in Procs : APR_Indirect(p)
    \/ \E p \in Procs : APR_Sync(p)

\* A store of two valid paths, 2 referring to 1, and the leftover 3 of a
\* build; no persistent roots; both processes running, process 1 with the
\* temporary roots temp; the collector called as nix-store --gc or as
\* nix-store --delete.
ProtoInit(temp) ==
    /\ refs = [p \in Paths |-> IF p = 2 THEN {1} ELSE {}]
    /\ drvOutputs = [p \in Paths |-> {}]
    /\ isDrv = {}
    /\ isDir = [p \in Paths |-> TRUE]
    /\ narSize = [p \in Paths |-> 1]
    /\ valid = {1, 2}
    /\ disk = Paths \cup {LinksDir}
    /\ links = [l \in LinkNames |-> Absent]
    /\ tempDir = [n \in Procs |-> IF n = 1 /\ temp # {} THEN 1 ELSE 0]
    /\ fdTemp = tempDir
    /\ files = [n \in Procs |-> [k \in Slots |->
                   IF n = 1 /\ k = 1 /\ temp # {}
                   THEN [content |-> temp, d |-> FALSE, olock |-> "read"]
                   ELSE BlankFile]]
    /\ retTemp = [n \in Procs |-> IF n = 1 THEN temp ELSE {}]
    /\ mpc = [n \in Procs |-> "idle"]
    /\ marg = [n \in Procs |-> NoArg]
    /\ gcReaders = {}
    /\ retPerm = {}
    /\ settings = [gcKeepOutputs |-> FALSE, gcKeepDerivations |-> FALSE]
    /\ options \in [action : {"gcDeleteDead", "gcDeleteSpecific"}, maxFreed : {Unlimited},
                    ignoreLiveness : {FALSE}, pathsToDelete : {{2}}]
    /\ state = GCState0
    /\ pc = "start"
    /\ entries = {}
    /\ unread = {}
    /\ scanTodo = {}
    /\ scanCur = NoFd
    /\ gcFds = {}
    /\ valid0 = {}
    /\ hist = Hist0

TempNext == Next \/ TempMutate

\* The collector among processes that call addTempRoot.
TempSpec == ProtoInit({}) /\ [][TempNext]_vars

PermNext == Next \/ PermMutate

\* The collector among processes that call addPermRoot.
PermSpec == ProtoInit({2}) /\ [][PermNext]_vars

\* An installer puts a store path into the store directory and then
\* registers it in the metadata store, once its references are valid.  It
\* works while no collector holds the GC lock; what it did before the cycle
\* is the store the cycle starts from.
Unlocked == pc \in {"deleteInvalidated", "links"}

InstallCreate(p) ==
    /\ Unlocked
    /\ p \notin disk
    /\ disk' = disk \cup {p}
    /\ UNCHANGED <<shape, valid, state, pc, entries, unread, valid0, links,
                   tempDir, files, procVars, scanAlone, gcFds, hist>>

InstallRegister(p) ==
    /\ Unlocked
    /\ p \in disk
    /\ p \notin valid
    /\ refs[p] \subseteq valid
    /\ valid' = valid \cup {p}
    /\ UNCHANGED <<shape, disk, state, pc, entries, unread, valid0, links,
                   tempDir, files, procVars, scanAlone, gcFds, hist>>

Installers ==
    \/ \E p \in Paths : InstallCreate(p)
    \/ \E p \in Paths : InstallRegister(p)

InstallNext == Next \/ Installers

\* nix-store --gc and nix-store --delete on a store of directories or of
\* files, without derivations; process 1 may be building path 3.
InstallInit ==
    /\ InitWith(SparseRefShapes, UnitSizes, {<<{}, {}>>, <<{1}, {}>>, <<{}, {3}>>},
                BOOLEAN, {[gcKeepOutputs |-> FALSE, gcKeepDerivations |-> FALSE]},
                [action : {"gcDeleteDead", "gcDeleteSpecific"}, maxFreed : {Unlimited},
                 ignoreLiveness : {FALSE}, pathsToDelete : {{1, 2}}],
                {Paths, Paths \ {3}}, {})
    /\ drvOutputs = [p \in Paths |-> {}]
    /\ \A q \in valid : refs[q] \subseteq valid

\* The collector among installers.
InstallSpec == InstallInit /\ [][InstallNext]_vars

\* The symlinks that users and earlier calls have left under gcroots and at
\* ext when the cycle starts: into the store (to a valid path and to one
\* that is not), to ext, or to a place where nothing is.
LinkTargets == {Absent, 1, 3, OutsideE, Nowhere}

SetLink(l, t) ==
    /\ pc = "start"
    /\ links[l] # t
    /\ links' = [links EXCEPT ![l] = t]
    /\ UNCHANGED <<shape, valid, disk, state, pc, entries, unread, valid0,
                   tempDir, files, procVars, scanAlone, gcFds, hist>>

\* Lines 359-362: LocalStore::findRoots(), the scan with deleteStale = false,
\* called before or after the cycle.
QueryRoots ==
    /\ pc \in {"start", "done"}
    /\ LET r == findRoots(valid, links, FALSE)
       IN /\ links' = r.links
          /\ hist' = [hist EXCEPT !.queried = r.roots]
    /\ UNCHANGED <<shape, valid, disk, state, pc, entries, unread, valid0,
                   tempDir, files, procVars, scanAlone, gcFds>>

RootsNext ==
    \/ Next
    \/ \E l \in LinkNames, t \in LinkTargets : SetLink(l, t)
    \/ QueryRoots

\* The collector and the root query over every arrangement of the links.
RootsSpec == ProtoInit({3}) /\ [][RootsNext]_vars

\* Lines 436 and 703: checkInterrupt, at the head of tryToDelete and of the
\* loop over the store directory, throws when the user has interrupted the
\* program; the stack unwinds and every descriptor is closed.
Interrupt ==
    /\ pc \in {"specific", "readdir", "shuffled"}
    /\ state' = [state EXCEPT !.exc = "Interrupted"]
    /\ pc' = "threw"
    /\ CloseFds(pc')
    /\ UNCHANGED <<shape, valid, disk, entries, unread, valid0, links, tempDir,
                   procVars, scanAlone, hist>>

\* collectGarbage is called again once the first call has returned or
\* thrown: nix-store --gc, with a budget (which makes it sweep the store,
\* line 682) or without one.  What the first call renamed and did not
\* delete is still in the store directory.
NextCycle ==
    /\ pc \in {"done", "threw"}
    /\ hist.cycle = 1
    /\ \E m \in {1, Unlimited} :
          options' = [action |-> "gcDeleteDead", maxFreed |-> m,
                      ignoreLiveness |-> FALSE, pathsToDelete |-> {}]
    /\ hist' = [hist EXCEPT !.cycle = 2, !.leftovers = disk \cap GcNames]
    /\ state' = GCState0
    /\ pc' = "start"
    /\ entries' = {}
    /\ unread' = {}
    /\ valid0' = {}
    /\ UNCHANGED <<refs, drvOutputs, isDrv, isDir, narSize, settings, valid, disk,
                   links, tempDir, files, procVars, scanAlone, gcFds>>

\* nix-store --gc and nix-store --delete, with and without a budget, on a
\* store of directories without derivations.
AgainInit ==
    /\ InitFrom(PlainRefShapes, UnitSizes, {<<{}, {}>>, <<{3}, {}>>, <<{}, {2}>>}, {TRUE},
                {[gcKeepOutputs |-> FALSE, gcKeepDerivations |-> FALSE]},
                [action : {"gcDeleteDead", "gcDeleteSpecific"}, maxFreed : {1, Unlimited},
                 ignoreLiveness : {FALSE}, pathsToDelete : {{1}, {1, 2}}])
    /\ drvOutputs = [p \in Paths |-> {}]

AgainNext == Next \/ Interrupt \/ NextCycle

\* A cycle that may be abandoned, and the cycle after it.
AgainSpec == AgainInit /\ [][AgainNext]_vars

\* ---------------------------------------------------------------- progress

\* collectGarbage has returned or thrown and is not called again; the other
\* processes go on.
Returned ==
    /\ pc \in {"done", "threw"}
    /\ pc' = "returned"
    /\ UNCHANGED <<shape, valid, disk, state, entries, unread, valid0, links,
                   tempDir, files, procVars, scanAlone, gcFds, hist>>

\* A step of collectGarbage once it holds the GC lock, other than a call of
\* tryToDelete; whether collectGarbage is called, and whether it is
\* interrupted, is up to its user.
Collecting ==
    \/ FindRoots
    \/ ReadTempRootsBegin
    \/ ScanOpen
    \/ ScanLockRead
    \/ ReadTempRootsDone
    \/ ReadDone
    \/ ReleaseGCLock
    \/ DeleteInvalidated
    \/ Finish

\* A call of tryToDelete out of the loops of lines 676-680, 702-711 and
\* 720-724, and where the collector is about to make one.
Trying == DeleteSpecific \/ ReadEntry \/ TryEntry

TryPending ==
    \/ pc = "specific" /\ entries # {}
    \/ pc = "readdir" /\ unread \ valid # {}
    \/ pc = "shuffled" /\ entries # {}

\* A step of process p inside a call of addTempRoot or addPermRoot.
MutatorStep(p) ==
    \/ ATR_GCLock(p)
    \/ ATR_Create(p)
    \/ ATR_LockRead(p)
    \/ ATR_Upgrade(p)
    \/ ATR_Return(p)
    \/ APR_Indirect(p)
    \/ APR_Sync(p)

\* The processes register a temporary root or an indirect persistent root.
LiveMutate ==
    \/ \E p \in Procs : ATR_Begin(p, 2)
    \/ \E p \in Procs : APR_Begin(p, 1, "indirect")
    \/ \E p \in Procs : MutatorStep(p)

LiveNext == Next \/ Interrupt \/ Returned \/ LiveMutate

\* A process that can take a step takes one; a process blocked in
\* fcntl(F_SETLKW) (lockFile with wait, lines 169, 200, 273 and the GC lock
\* of 644 and 80) gets the lock once it stays free.  The weak fairness of
\* Trying is written out, TryPending being what enables it.
LiveSpec ==
    /\ ProtoInit({2})
    /\ [][LiveNext]_vars
    /\ WF_vars(Collecting)
    /\ ([]<>~TryPending \/ []<><<Trying>>_vars)
    /\ WF_vars(Returned)
    /\ \A p \in Procs : WF_vars(MutatorStep(p))


\* ------------------------------------------------------------------ claims

Classifying == pc \in {"specific", "readdir", "shuffled"}
Ended == pc \in {"done", "threw"}
RootsKnown == pc \notin {"start", "findRoots", "readTempRoots"}

\* The liveness edges out of p among the paths valid when the GC lock was
\* acquired: its references, its outputs when derivations keep their outputs
\* (keep-outputs), its derivers when outputs keep their derivers
\* (keep-derivations), the policies being those in force in this cycle.
LiveEdges(p) ==
    (refs[p]
     \cup (IF state.gcKeepOutputs /\ isDerivation(p) THEN drvOutputs[p] ELSE {})
     \cup (IF state.gcKeepDerivations
           THEN {d \in valid0 : isDerivation(d) /\ p \in drvOutputs[d]} ELSE {}))
    \cap valid0

RECURSIVE ReachFrom(_, _)
ReachFrom(S, n) ==
    IF n = 0 THEN S
    ELSE ReachFrom(S \cup UNION {LiveEdges(p) : p \in S \cap valid0}, n - 1)

\* roots \cup reach(roots)
Live == ReachFrom(state.roots, NPaths)

Gone(q) == q \notin valid /\ q \notin disk /\ Gc(q) \notin disk

\* C1: no live path is deleted: in every state of a cycle whose root set is
\* known, and so when the run ends, every path that was valid when the lock
\* was acquired and is a root or reachable from one is valid and in the store.
C1_NoLivePathDeleted ==
    RootsKnown => \A p \in Live \cap valid0 : p \in valid /\ p \in disk

\* A DeleteDead run has ended having deleted a path and kept a path that is
\* live only through a reference or a policy edge.
C1_Witness ==
    /\ pc = "done"
    /\ options.action = "gcDeleteDead"
    /\ valid0 \ valid # {}
    /\ (Live \cap valid0) \ state.roots # {}

\* C2 as claimed: when a DeleteDead run with a budget that cannot be reached
\* has returned, every path that was valid and not reachable from the roots
\* when the GC lock was acquired is invalid and its storage is gone.
C2_AllDeadRemoved ==
    (pc = "done" /\ options.action = "gcDeleteDead" /\ options.maxFreed = Unlimited)
        => \A q \in valid0 \ Live : Gone(q)

\* The policy-coupled set of derivation d: d and its outputs that were valid.
UnitOf(d) == {d} \cup (drvOutputs[d] \cap valid0)

Atomic == \A d \in valid0 : isDerivation(d) =>
              UnitOf(d) \subseteq valid \/ UnitOf(d) \cap valid = {}

BothInForce == state.gcKeepOutputs /\ state.gcKeepDerivations

\* C8 as claimed: with both policies in force, when the run has ended -
\* stopped by the budget or not - every derivation and its valid outputs
\* are all deleted or all kept.
C8_UnitAtomic == (Ended /\ BothInForce) => Atomic

\* C8, amended: with both policies in force and in every state of a cycle
\* that the budget has not stopped, and so when such a run ends, every
\* derivation and its valid outputs are all deleted or all kept.
C8_UnitAtomicUnlessStopped ==
    (RootsKnown /\ BothInForce /\ state.exc # "GCLimitReached") => Atomic

\* A run under both policies has ended short of its budget having deleted
\* a derivation together with its output.
C8_Witness ==
    /\ pc = "done"
    /\ BothInForce
    /\ state.exc = "none"
    /\ \E d \in valid0 : /\ isDerivation(d)
                         /\ Cardinality(UnitOf(d)) > 1
                         /\ UnitOf(d) \cap valid = {}

MaxPathSize == CHOOSE m \in 1..MaxSize :
                   (\E p \in Paths : narSize[p] = m) /\ \A p \in Paths : narSize[p] <= m

Counted == state.bytesFreed + state.bytesInvalidated

C10_SentinelCaught == pc = "threw" => state.exc # "GCLimitReached"

\* ------------------------------------------------- claims on the protocol

\* readTempRoots has finished and the collector still holds the GC lock.
Frozen == pc \in {"specific", "readdir", "shuffled", "unlock"}

\* C3 as claimed: during classification the root set holds the storePath
\* of every addPermRoot call that returned before the collector took the
\* GC lock.
C3_ReturnedRootFound ==
    (Classifying /\ ~options.ignoreLiveness)
        => \A r \in retPerm : r.storePath \in state.roots

\* The root of the returned call r is one the scan can find: storePath is
\* valid, gcRoot is under the roots directory or was registered as an
\* indirect root, and the links still are as the call left them.
Discoverable(r) ==
    /\ r.storePath \in valid0
    /\ r.kind # "outside"
    /\ hist.linksAtScan[GcRootOf(r.kind)] = r.storePath
    /\ r.kind = "indirect" => hist.linksAtScan["auto"] = OutsideE

\* C3, amended: once the collector (not ignoring liveness) has scanned the
\* roots, its root set holds the storePath of every addPermRoot call that
\* returned before it took the GC lock, provided storePath is valid and the
\* root is discoverable and in place when the scan runs.
C3_DiscoverableRootFound ==
    (pc \notin {"start", "findRoots"} /\ ~options.ignoreLiveness)
        => \A r \in retPerm : Discoverable(r) => r.storePath \in state.roots

\* The collector classifies with a root that is registered indirectly and
\* came from no temp-roots file.
C3_Witness ==
    /\ Classifying
    /\ \E r \in retPerm : /\ r.kind = "indirect"
                          /\ Discoverable(r)
                          /\ r.storePath \notin state.tempRoots
                          /\ r.storePath \in state.roots

\* C4 as claimed: while the collector holds the GC lock after its root scan,
\* every link under the roots directory is as the scan saw it.
C4_NoRootAppearsUnderLock ==
    (GCWrite /\ pc # "findRoots")
        => \A l \in InRootsDir : links[l] # Absent => links[l] = hist.linksAtScan[l]

KeptContents == UNION {files[f[1]][f[2]].content : f \in gcFds}

\* C5: from the end of readTempRoots until the GC lock is released, every
\* path whose addTempRoot call returned in a process that is alive is in
\* state.roots, and the file of such a process has not been reaped: it is
\* linked under the name of the process, open in it, and without the 'd'.
C5_LiveTempRootsHonoured ==
    Frozen => \A p \in Procs :
                 (Alive(p) /\ retTemp[p] # {}) =>
                     /\ retTemp[p] \subseteq state.roots
                     /\ fdTemp[p] # 0
                     /\ tempDir[p] = fdTemp[p]
                     /\ ~files[p][fdTemp[p]].d
                     /\ p \notin hist.reaped

\* The collector classifies while a process that is alive holds a
\* temporary root, which is the only root.
C5_Witness ==
    /\ Classifying
    /\ links = [l \in LinkNames |-> Absent]
    /\ \E p \in Procs : Alive(p) /\ retTemp[p] # {} /\ retTemp[p] = state.roots

\* C6: from the end of readTempRoots until the GC lock is released no
\* addTempRoot call returns; no process holds the write lock on its file or
\* the GC lock, and a process waiting for the upgrade owns a file the
\* collector keeps read-locked.
C6_TempRootsFrozen ==
    [][Frozen => /\ \A p \in Procs : retTemp'[p] \subseteq retTemp[p]
                 /\ gcReaders = {}
                 /\ \A p \in Procs : /\ mpc[p] \notin {"atr_write", "atr_create"}
                                     /\ mpc[p] = "atr_upgrade" => GCReads(p, fdTemp[p])]_vars

\* During classification one process waits for the upgrade and the other
\* for the GC lock.
C6_Witness ==
    /\ Classifying
    /\ \E p, q \in Procs : mpc[p] = "atr_upgrade" /\ mpc[q] = "atr_gclock"

\* C7: from the end of readTempRoots until the GC lock is released, every
\* name whose file nobody held a lock on when it was scanned is gone from
\* the temproots directory, and the temporary roots are exactly the paths
\* of the files the collector keeps locked.
C7_StaleFilesReaped ==
    Frozen => /\ \A n \in hist.reaped : tempDir[n] = 0
              /\ state.tempRoots = KeptContents

\* The collector classifies having reaped a file that listed a path, which
\* is no root.
C7_Witness ==
    /\ Classifying
    /\ hist.reaped # {}
    /\ hist.reapedPaths # {}
    /\ hist.reapedPaths \cap state.roots = {}

\* ------------------------------------------- claims on the delete pipeline

\* C11 as claimed: when a DeleteSpecific cycle that was asked for a live
\* path has ended, it has thrown the "still alive" error and every path
\* that was valid when the GC lock was acquired is still valid and in the
\* store, nothing having been renamed.
C11_LiveRequestDeletesNothing ==
    (Ended /\ options.action = "gcDeleteSpecific"
           /\ options.pathsToDelete \cap Live \cap valid0 # {})
        => /\ pc = "threw"
           /\ state.exc = "Error"
           /\ valid = valid0
           /\ valid0 \subseteq disk
           /\ disk \cap GcNames = {}

\* The paths listed in the temp-roots files of the processes that are alive.
Listed == UNION {files[p][fdTemp[p]].content :
                    p \in {q \in Procs : Alive(q) /\ fdTemp[q] # 0}}

\* r, r.lock and r.chroot
BuildEntries(r) == {r, LockOf(r), ChrootOf(r)}

\* C12: no step of a collection cycle, whatever its action, removes from the
\* store or invalidates a path r listed in the temp-roots file of a process
\* that is alive, or removes the entry r.lock or r.chroot.
C12_ActiveBuildProtected ==
    [][\A r \in Listed \cap Listed' :
          /\ \A e \in BuildEntries(r) \cap disk : e \in disk'
          /\ r \in valid => r \in valid']_vars

\* A DeleteDead cycle, which tries every entry of the store, has returned
\* having deleted the lock file of a path nobody builds, while the path a
\* process builds, not valid yet, its lock file and its chroot directory
\* are still there.
C12_Witness ==
    /\ pc = "done"
    /\ options.action = "gcDeleteDead"
    /\ \E r \in Listed : r \notin valid /\ BuildEntries(r) \subseteq disk
    /\ \E q \in Paths \ Listed : LockOf(q) \in BuildLeftovers \ disk

IgnoringLiveness == options.action = "gcDeleteSpecific" /\ options.ignoreLiveness

\* S and the paths valid when the GC lock was acquired that refer to a
\* member of S, directly or through other such paths.
RECURSIVE ReferrersOf(_, _)
ReferrersOf(S, n) ==
    IF n = 0 THEN S
    ELSE ReferrersOf(S \cup {q \in valid0 : refs[q] \cap S # {}}, n - 1)

\* What a step invalidates or removes from the store under its own name.
Removed == (valid \ valid') \cup ((disk \ disk') \ GcNames)

\* C13 as claimed: every step of a DeleteSpecific cycle with ignoreLiveness
\* invalidates or deletes paths of pathsToDelete only.
C13_OnlyRequestedDeleted ==
    [][IgnoringLiveness => Removed \subseteq options.pathsToDelete]_vars

\* C13, amended: in a DeleteSpecific cycle with ignoreLiveness the policies
\* are off from the acquisition of the GC lock on, and every step
\* invalidates or deletes only paths of pathsToDelete and valid paths that
\* refer to one of them, directly or through other paths.
C13_OnlyRequestedAndReferrers ==
    [][IgnoringLiveness =>
          /\ pc # "start" => ~state.gcKeepOutputs /\ ~state.gcKeepDerivations
          /\ Removed \subseteq ReferrersOf(options.pathsToDelete, NPaths)]_vars

\* A DeleteSpecific cycle with ignoreLiveness, both policies configured, has
\* returned having invalidated a derivation that was not asked for and
\* refers to a path that was, and having kept the output of the derivation.
C13_Witness ==
    /\ pc = "done"
    /\ IgnoringLiveness
    /\ settings.gcKeepOutputs /\ settings.gcKeepDerivations
    /\ \E d \in (valid0 \ valid) \ options.pathsToDelete :
          /\ isDerivation(d)
          /\ refs[d] \cap options.pathsToDelete # {}
          /\ drvOutputs[d] \cap valid # {}

\* C14: a step that invalidates a path, renames one to <p>-gc-<pid> or
\* deletes an entry in place is taken while the collector holds the GC lock
\* for writing; as long as it holds the lock, and when the call has thrown,
\* every directory it renamed is still there; and a renamed directory is
\* deleted only by the step that follows the release of the lock.
C14_DeletePipelineLockScope ==
    /\ []((GCWrite \/ pc = "threw") => state.invalidated \subseteq disk)
    /\ [][/\ (valid' # valid \/ (disk \ disk') \ GcNames # {} \/ disk' \ disk # {})
               => GCWrite
          /\ (disk \cap GcNames) \ disk' # {}
               => ~GCWrite /\ pc = "deleteInvalidated"]_vars

\* A cycle has returned having renamed a directory and deleted it after
\* the release of the lock, and having deleted another path in place.
C14_Witness ==
    /\ pc = "done"
    /\ state.invalidated # {}
    /\ state.invalidated \cap disk = {}
    /\ \E p \in valid0 \ valid : Gc(p) \notin state.invalidated /\ p \notin disk

\* C15: once the collector has released the GC lock, every entry a step
\* removes from the store is a renamed directory <p>-gc-<pid>, which is no
\* valid path, and every path that is valid and in the store stays so,
\* whatever the installers have created and registered in between.
C15_NoRevivalDeleted ==
    [][Unlocked => /\ disk \ disk' \subseteq GcNames \ valid
                   /\ valid \subseteq valid'
                   /\ valid \cap disk \subseteq disk']_vars

\* After the release of the lock the collector has deleted one renamed
\* directory and has another left to delete, whose path an installer has
\* already created and registered again.
C15_Witness ==
    /\ pc = "deleteInvalidated"
    /\ state.invalidated \ disk # {}
    /\ \E p \in Paths : /\ Gc(p) \in state.invalidated \cap disk
                        /\ p \in valid \cap disk

\* The store paths the cycle has invalidated or removed from the store;
\* every cycle starts with all of Paths in the store directory.
RemovedPaths == (valid0 \ valid) \cup (Paths \ disk)

\* C16 as claimed: when a DeleteDead or DeleteSpecific call has returned,
\* stopped by the budget or not, results.paths holds every store path the
\* cycle invalidated or deleted, no other store path, and no live path.
C16_PathsReportRemoved ==
    (pc = "done" /\ shouldDelete(options.action))
        => /\ RemovedPaths \subseteq state.paths
           /\ state.paths \cap Paths \subseteq RemovedPaths
           /\ state.paths \cap Live = {}

\* C17: a scan with deleteStale = false changes no link; the scan of a
\* cycle changes a link only by unlinking it, and only a link under the
\* roots directory whose target is outside the store and does not exist:
\* never the link ext, which it reaches only through a symlink, and never
\* a link into the store.
C17_OnlyStaleLinksUnlinked ==
    [][/\ QueryRoots => links' = links
       /\ FindRoots => \A l \in LinkNames : links'[l] # links[l] =>
             /\ l \in InRootsDir
             /\ links'[l] = Absent
             /\ links[l] # Absent
             /\ ~isInStore(links[l])
             /\ ~pathExists(links, links[l])]_vars

\* The scan of a cycle has unlinked the stale link gcroots/auto and has
\* left alone the link ext, stale itself and reached through gcroots/root.
C17_Witness ==
    /\ pc = "readTempRoots"
    /\ hist.linksAtScan = [l \in LinkNames |-> IF l = "root" THEN OutsideE ELSE Nowhere]
    /\ links = [l \in LinkNames |->
                   IF l = "root" THEN OutsideE ELSE IF l = "auto" THEN Absent ELSE Nowhere]

\* The file process p has open is the one linked under its name, and the
\* collector has not marked it.
OwnFileLinked(p) ==
    /\ fdTemp[p] # 0
    /\ tempDir[p] = fdTemp[p]
    /\ ~files[p][fdTemp[p]].d

\* C18: a writer that has taken the read lock on its new file goes on to
\* record its root exactly when the file is empty and otherwise starts
\* again at the GC lock; so a process that is about to write a root, is
\* writing one or has returned from addTempRoot has its file linked and
\* unmarked, and the file holds every root its calls returned.
C18_WriterRetries ==
    /\ [](\A p \in Procs :
             /\ mpc[p] \in {"atr_upgrade", "atr_write"} => OwnFileLinked(p)
             /\ (Alive(p) /\ retTemp[p] # {}) =>
                    /\ OwnFileLinked(p)
                    /\ retTemp[p] \subseteq files[p][fdTemp[p]].content)
    /\ [][\A p \in Procs :
             (mpc[p] = "atr_lockread" /\ mpc'[p] \notin {"atr_lockread", "dead"}) =>
                 mpc'[p] = (IF fileSize(files[p][fdTemp[p]]) = 0
                            THEN "atr_upgrade" ELSE "atr_gclock")]_vars

\* A writer has found the file it created unlinked and marked by the
\* collector, and is back at the GC lock, which the collector still holds.
C18_Witness ==
    \E p \in Procs :
        /\ mpc[p] = "atr_gclock"
        /\ fdTemp[p] # 0
        /\ tempDir[p] = 0
        /\ files[p][fdTemp[p]].d
        /\ files[p][fdTemp[p]].olock = "read"
        /\ GCWrite

\* C19: in every state of a cycle, ended or not, cut short or not, the
\* references of every valid path are valid, and invalidatePathChecked has
\* never refused a path because a valid path still referred to it.
C19_ReferrersFirst ==
    /\ \A q \in valid : refs[q] \subseteq valid
    /\ state.exc # "PathInUse"

\* A deleting cycle was cut short by the budget between a referrer, which
\* it has invalidated, and the path referred to, which is still valid
\* although nothing keeps it alive.
C19_Witness ==
    /\ pc = "done"
    /\ state.exc = "GCLimitReached"
    /\ \E p \in valid \ Live, q \in valid0 \ valid : q # p /\ p \in refs[q]

\* C20 as claimed: every path the cycle has invalidated was handled by its
\* own file type: a directory was renamed and its new name queued in
\* state.invalidated, anything else was deleted in place and not queued.
C20_MethodPerPath ==
    \A p \in valid0 \ valid :
        IF isDir[p]
        THEN Gc(p) \in state.invalidated
        ELSE Gc(p) \notin state.invalidated /\ p \notin disk /\ Gc(p) \notin disk

\* The sweep of the store directory has read every entry.
SweepRead == pc \in {"shuffled", "unlock", "deleteInvalidated", "links", "done"}

\* C21: in the DeleteDead cycle that follows a cycle, abandoned or not, once
\* the store directory has been read without the budget being reached none
\* of the <p>-gc-<pid> entries the earlier cycle left behind is in the store.
C21_LeftoversReaped ==
    (hist.cycle = 2 /\ SweepRead /\ state.exc # "GCLimitReached")
        => hist.leftovers \cap disk = {}

\* The second cycle has returned; the first was abandoned, by an error or an
\* interrupt, having renamed a directory, which the second has deleted.
C21_Witness ==
    /\ hist.cycle = 2
    /\ pc = "done"
    /\ state.exc = "none"
    /\ hist.leftovers # {}
    /\ hist.leftovers \cap disk = {}

\* ------------------------------------------------ claims on the whole run

\* C22 as claimed: no call of tryToDelete made by the collector recurses
\* without end, whatever the acyclic store and the two keep settings; a
\* recursion that enters a path again with nothing changed since is cut at
\* MaxDepth and recorded as the stack overflow it ends in.
C22_TryToDeleteReturns == state.exc # "StackOverflow"

\* The positions where a process waits for a lock the collector holds: the
\* read lock on the global GC lock (lines 169 and 80) and the write lock on
\* its own temp-roots file (line 200).
WaitsFor(p, at) ==
    /\ mpc[p] = at
    /\ IF at = "atr_upgrade" THEN GCReads(p, fdTemp[p]) ELSE GCWrite

\* The collector waits for a lock process p holds: the readers of the GC lock
\* (line 644) or the writer of the file it is scanning (line 273).
CollectorWaitsFor(p) ==
    \/ pc = "start" /\ p \in gcReaders
    \/ /\ pc = "scanning"
       /\ scanCur # NoFd
       /\ scanCur[1] = p
       /\ files[p][scanCur[2]].olock = "write"

NoWaitCycle ==
    \A p \in Procs :
        ~(CollectorWaitsFor(p) /\ \E at \in {"atr_gclock", "apr_sync", "atr_upgrade"} :
                                      WaitsFor(p, at))

SweepStart ==
    [GCState0 EXCEPT !.roots = state.roots, !.tempRoots = state.tempRoots,
                     !.gcKeepOutputs = state.gcKeepOutputs,
                     !.gcKeepDerivations = state.gcKeepDerivations,
                     !.valid = valid0, !.disk = valid0 \cup {LinksDir}]

\* The loop of lines 720-724 over the entries in ascending order.
RECURSIVE sweepInOrder(_, _)
sweepInOrder(w, todo) ==
    IF todo = {} \/ w.exc # "none" THEN w
    ELSE sweepInOrder(tryToDelete(w, Min(todo), 0).w, todo \ {Min(todo)})

\* C24 as claimed: when a DeleteDead, ReturnDead or ReturnLive call with a
\* budget that cannot be reached has returned, with no other process
\* running, the paths it deleted (the paths it reported) are those that the
\* same sweep deletes (reports) when it is handed the valid entries in
\* ascending order and comes to its end.
C24_OrderIndependent ==
    (/\ pc = "done"
     /\ state.exc = "none"
     /\ options.action \in {"gcDeleteDead", "gcReturnDead", "gcReturnLive"}
     /\ options.maxFreed = Unlimited)
        => LET ref == sweepInOrder(SweepStart, valid0)
           IN ref.exc = "none" =>
                 /\ valid = ref.valid
                 /\ options.action # "gcDeleteDead" => state.paths = ref.paths

=============================================================================
